---- MODULE Spec2Model ----
(***************************************************************************)
(* State-machine model of vllm/worker/tpu_worker.py (class TPUWorker).     *)
(*                                                                         *)
(* One worker object is modelled.  Its attributes are the variables, the   *)
(* constructor is Init and every public method is one action.  Python      *)
(* Optional values are modelled as sequences of length 0 (None) or 1.      *)
(* The collaborators that live outside tpu_worker.py (TPUModelRunner, the  *)
(* attention backend, torch, vllm.utils) are modelled at their interface.  *)
(***************************************************************************)
EXTENDS Integers, Sequences, FiniteSets, TLC

VARIABLES
    model_config,    \* self.model_config (per-worker layer / head counts)
    cache_config,    \* self.cache_config
    cache_dtype,     \* self.cache_dtype
    device,          \* self.device
    block_size,      \* self.block_size
    tpu_cache,       \* self.tpu_cache
    model_runner,    \* self.model_runner: its block_size attribute and the
                     \* cache object it holds live after the last warmup
    ret,             \* the last call: arguments, outcome, runner calls made
    allocated,       \* history: some initialize_cache call has returned
    probe_results    \* history: every pair the capacity probe has returned

vars == <<model_config, cache_config, cache_dtype, device, block_size,
          tpu_cache, model_runner, ret, allocated, probe_results>>

(* ------------------------------ bounds --------------------------------- *)
MaxLayers == 2
MaxBlockSize == 2
MaxKvHeads == 2
MaxHeadSize == 1
MaxBlocks == 1
MaxCpuBlocks == 1
MaxRequests == 2
MaxTokens == 2

(* ------------------------- Optional values ----------------------------- *)
None == <<>>
Some(x) == <<x>>
IsNone(o) == Len(o) = 0
Get(o) == o[1]

(* --------------------- external pure collaborators --------------------- *)
ModelDtypes == {"float16", "bfloat16", "float32"}
CacheDtypeNames == {"auto", "half", "bfloat16", "float", "fp8"}

\* vllm.utils.STR_DTYPE_TO_TORCH_DTYPE
STR_DTYPE_TO_TORCH_DTYPE(name) ==
    CASE name = "half"     -> "float16"
      [] name = "bfloat16" -> "bfloat16"
      [] name = "float"    -> "float32"
      [] name = "fp8"      -> "uint8"

\* vllm.utils.get_dtype_size: element size in bytes of a torch dtype
get_dtype_size(dtype) ==
    CASE dtype = "float32"  -> 4
      [] dtype = "float16"  -> 2
      [] dtype = "bfloat16" -> 2
      [] dtype = "uint8"    -> 1

\* attn_backend.get_kv_cache_shape: the layout of one cache tensor
get_kv_cache_shape(num_blocks, blk_size, num_kv_heads, head_size) ==
    <<num_kv_heads, num_blocks, blk_size, head_size>>

RECURSIVE Numel(_)
Numel(shape) == IF shape = <<>> THEN 1 ELSE Head(shape) * Numel(Tail(shape))

\* torch.zeros(shape, dtype=, device=)
torch_zeros(shape, dtype, dev) ==
    [shape |-> shape, dtype |-> dtype, device |-> dev,
     data |-> [i \in 1..Numel(shape) |-> 0]]

\* torch.zeros_like(t)
torch_zeros_like(t) == [t EXCEPT !.data = [i \in DOMAIN t.data |-> 0]]

(* ------------------------------ __init__ ------------------------------- *)
\* lines 40-44: the storage precision chosen by the constructor
InitCacheDtype(mc, cc) ==
    IF cc.cache_dtype = "auto" THEN mc.dtype
    ELSE STR_DTYPE_TO_TORCH_DTYPE(cc.cache_dtype)

ModelConfigs(dtypes) ==
    [dtype : dtypes, num_layers : 1..MaxLayers,
     num_kv_heads : 1..MaxKvHeads, head_size : 1..MaxHeadSize]

CacheConfigs(names) ==
    [cache_dtype : names, block_size : 1..MaxBlockSize,
     num_gpu_blocks : {None}, num_cpu_blocks : {None}]

NoCall == [op |-> "__init__", args |-> <<>>, raised |-> "", line |-> 0,
           value |-> None, runner_calls |-> <<>>]

\* lines 32-54: the worker right after construction
Constructed(mc, cc) ==
    /\ model_config = mc
    /\ cache_config = cc
    /\ cache_dtype = InitCacheDtype(model_config, cache_config)
    /\ device = None
    /\ block_size = None
    /\ tpu_cache = None
    /\ model_runner = [block_size |-> None, cache |-> None]
    /\ ret = NoCall
    /\ allocated = FALSE
    /\ probe_results = {}

\* every precision, and the 32-layer configuration with 16-token blocks,
\* 8 kv heads of size 128
InitFootprint ==
    \E mc \in ModelConfigs(ModelDtypes) \cup
                [dtype : ModelDtypes, num_layers : {32}, num_kv_heads : {8},
                 head_size : {128}],
       cc \in CacheConfigs(CacheDtypeNames) \cup
                [cache_dtype : CacheDtypeNames, block_size : {16},
                 num_gpu_blocks : {None}, num_cpu_blocks : {None}] :
        Constructed(mc, cc)

\* the serving model runs one precision; the block and tensor dimensions vary
Init ==
    \E mc \in ModelConfigs({"bfloat16"}), cc \in CacheConfigs({"auto"}) :
        Constructed(mc, cc)

(* -------------------- determine_num_available_blocks ------------------- *)
\* line 76
num_tpu_blocks == 2000

AvailableBlocks_Remaining ==
    <<num_tpu_blocks - (IF IsNone(cache_config.num_gpu_blocks) THEN 0
                        ELSE Get(cache_config.num_gpu_blocks)), 0>>

\* line 77: the returned pair (device blocks, host blocks)
AvailableBlocks == <<num_tpu_blocks, 0>>

determine_num_available_blocks_Records ==
    /\ ret' = [NoCall EXCEPT !.op = "determine_num_available_blocks",
                             !.value = Some(AvailableBlocks)]
    /\ probe_results' = probe_results \cup {AvailableBlocks}
    /\ cache_config' = [cache_config EXCEPT
                          !.num_gpu_blocks = Some(num_tpu_blocks)]
    /\ UNCHANGED <<model_config, cache_dtype, device, block_size,
                   tpu_cache, model_runner, allocated>>

\* lines 75-77
determine_num_available_blocks ==
    /\ ret' = [NoCall EXCEPT !.op = "determine_num_available_blocks",
                             !.value = Some(AvailableBlocks)]
    /\ probe_results' = probe_results \cup {AvailableBlocks}
    /\ UNCHANGED <<model_config, cache_config, cache_dtype, device, block_size,
                   tpu_cache, model_runner, allocated>>

(* ----------------------- get_cache_block_size_bytes -------------------- *)
CacheBlockSizeBytes_KeyOnly(mc, cc, dtype) ==
    LET key_cache_block == cc.block_size * mc.num_kv_heads * mc.head_size
        total == mc.num_layers * key_cache_block
    IN  get_dtype_size(dtype) * total

\* lines 110-119
CacheBlockSizeBytes(mc, cc, dtype) ==
    LET head_size == mc.head_size
        num_heads == mc.num_kv_heads
        num_layers == mc.num_layers
        key_cache_block == cc.block_size * num_heads * head_size
        value_cache_block == key_cache_block
        total == num_layers * (key_cache_block + value_cache_block)
        dtype_size == get_dtype_size(dtype)
    IN  dtype_size * total

get_cache_block_size_bytes ==
    /\ ret' = [NoCall EXCEPT
                 !.op = "get_cache_block_size_bytes",
                 !.value = Some(CacheBlockSizeBytes(model_config, cache_config,
                                                    cache_dtype))]
    /\ UNCHANGED <<model_config, cache_config, cache_dtype, device, block_size,
                   tpu_cache, model_runner, allocated, probe_results>>

(* ---------------------------- TPUModelRunner --------------------------- *)
\* One recorded call into the model runner: method, arguments and what the
\* runner answered (an exception, or a return value).
RunnerCall(method, args, raised, value) ==
    [method |-> method, args |-> args, raised |-> raised, value |-> value]

\* TPUModelRunner.warmup_model under buffer donation: the buffers handed in
\* are consumed and a new cache object is handed back.
DonatedCache(cache) == [obj |-> "donated", layers |-> cache.layers]

\* What warmup_model can answer for a given cache: an exception, nothing,
\* or a replacement cache object.
WarmupKinds == {"raises", "in_place", "donates"}

WarmupAnswer(kind, cache) ==
    CASE kind = "raises"   -> [raised |-> TRUE,  value |-> None]
      [] kind = "in_place" -> [raised |-> FALSE, value |-> None]
      [] kind = "donates"  -> [raised |-> FALSE,
                               value |-> Some(DonatedCache(cache))]

\* TPUModelRunner.execute_model: an exception, or one sampled token per
\* sequence group.
ExecuteAnswers(requests) ==
    { [raised |-> TRUE, value |-> <<>>] } \cup
    { [raised |-> FALSE, value |-> out] :
        out \in [1..Len(requests) -> 1..MaxTokens] }

(* --------------------------- initialize_cache -------------------------- *)
AllocatedLayers_OneShort(count, shape, dtype, dev) ==
    [i \in 1..(count - 1) |->
        LET key_cache == torch_zeros(shape, dtype, dev)
        IN  <<key_cache, torch_zeros_like(key_cache)>>]

\* lines 96-101: the per-layer (key, value) pairs after `count` iterations
AllocatedLayers(count, shape, dtype, dev) ==
    [i \in 1..count |->
        LET key_cache == torch_zeros(shape, dtype, dev)
            value_cache == torch_zeros_like(key_cache)
        IN  <<key_cache, value_cache>>]

\* lines 105-108: the worker's cache reference after warmup_model answered
CacheAfterWarmup(cache, answer) == cache

\* lines 79-103.  `fail_at` is the number of layers appended before a
\* torch.zeros / torch.zeros_like call raises (num_layers: none raises);
\* `warmup` is how warmup_model answers when it is reached.
initialize_cache(num_gpu_blocks, num_cpu_blocks, fail_at, warmup) ==
    LET dtype == cache_dtype
        num_layers == model_config.num_layers
        num_kv_heads == model_config.num_kv_heads
        head_size == model_config.head_size
        blk == cache_config.block_size
        tpu_cache_shape == get_kv_cache_shape(num_gpu_blocks, blk,
                                              num_kv_heads, head_size)
        dev == IF IsNone(device) THEN "default" ELSE Get(device)
        cache == [obj |-> "list",
                  layers |-> AllocatedLayers(fail_at, tpu_cache_shape,
                                             dtype, dev)]
        answer == WarmupAnswer(warmup, cache)
        call == RunnerCall("warmup_model", <<cache>>, answer.raised,
                           answer.value)
        args == [num_gpu_blocks |-> num_gpu_blocks,
                 num_cpu_blocks |-> num_cpu_blocks]
    IN
    \* a negative dimension makes the first torch.zeros raise
    /\ num_gpu_blocks < 0 => fail_at = 0
    /\ cache_config' = [cache_config EXCEPT
                          !.num_gpu_blocks = Some(num_gpu_blocks),
                          !.num_cpu_blocks = Some(num_cpu_blocks)]
    /\ block_size' = Some(blk)
    /\ IF fail_at < num_layers
       THEN \* an allocation raised inside the loop (lines 97-100)
            /\ warmup = "in_place"
            /\ tpu_cache' = Some(cache)
            /\ model_runner' = [model_runner EXCEPT !.cache = None]
            /\ allocated' = allocated
            /\ ret' = [op |-> "initialize_cache", args |-> args,
                       raised |-> "DeviceFailure", line |-> 97,
                       value |-> None, runner_calls |-> <<>>]
       ELSE /\ IF answer.raised
               THEN /\ tpu_cache' = Some(cache)
                    /\ model_runner' = [model_runner EXCEPT
                                          !.block_size = Some(blk),
                                          !.cache = None]
                    /\ allocated' = allocated
                    /\ ret' = [op |-> "initialize_cache", args |-> args,
                               raised |-> "DeviceFailure", line |-> 108,
                               value |-> None, runner_calls |-> <<call>>]
               ELSE /\ tpu_cache' = Some(CacheAfterWarmup(cache, answer))
                    /\ model_runner' =
                         [model_runner EXCEPT
                            !.block_size = Some(blk),
                            !.cache = IF IsNone(answer.value)
                                      THEN Some(cache) ELSE answer.value]
                    /\ allocated' = TRUE
                    /\ ret' = [op |-> "initialize_cache", args |-> args,
                               raised |-> "", line |-> 103,
                               value |-> None, runner_calls |-> <<call>>]
    /\ UNCHANGED <<model_config, cache_dtype, device, probe_results>>

(* ----------------------------- execute_model --------------------------- *)
\* a Python dict is the set of its (key, value) items
len(d) == Cardinality(d)

\* lines 128-132: the source line of the first `is not None` assert that
\* fails, 0 when all four pass
NoneAssertLine(requests, swap_in, swap_out, copy) ==
    CASE IsNone(requests) -> 128
      [] ~IsNone(requests) /\ IsNone(swap_in) -> 130
      [] ~IsNone(requests) /\ ~IsNone(swap_in) /\ IsNone(swap_out) -> 131
      [] ~IsNone(requests) /\ ~IsNone(swap_in) /\ ~IsNone(swap_out)
           /\ IsNone(copy) -> 132
      [] OTHER -> 0

MigrationAssertLine_NoCopyCheck(swap_in, swap_out, copy) ==
    IF len(swap_in) # 0 THEN 136
    ELSE IF len(swap_out) # 0 THEN 137
    ELSE 0

\* lines 136-138: the source line of the first migration assert that fails,
\* 0 when all three maps are empty
MigrationAssertLine(swap_in, swap_out, copy) ==
    IF len(swap_in) # 0 THEN 136
    ELSE IF len(swap_out) # 0 THEN 137
    ELSE IF len(copy) # 0 THEN 138
    ELSE 0

NoInput_Never(num_seq_groups) == FALSE

\* line 141
NoInput(num_seq_groups) == num_seq_groups = 0

ForwardedArgs_DropsFirst(seq_group_metadata_list, cache) ==
    <<Tail(seq_group_metadata_list), cache>>

\* lines 144-145: the arguments forwarded to the model runner
ForwardedArgs(seq_group_metadata_list, cache) ==
    <<seq_group_metadata_list, cache>>

\* line 146
ReturnedOutput(output) == output

\* lines 121-146 as a function of the arguments, the worker's cache
\* reference and the runner's answer
ExecuteModel(requests, swap_in, swap_out, copy, cache, answer) ==
    LET none_line == NoneAssertLine(requests, swap_in, swap_out, copy)
        failed(line) == [raised |-> "AssertionError", line |-> line,
                         value |-> None, runner_calls |-> <<>>]
    IN
    IF none_line # 0 THEN failed(none_line)
    ELSE
    LET seq_group_metadata_list == Get(requests)
        num_seq_groups == Len(seq_group_metadata_list)
        mig_line == MigrationAssertLine(Get(swap_in), Get(swap_out), Get(copy))
        call == RunnerCall("execute_model",
                           ForwardedArgs(seq_group_metadata_list, cache),
                           answer.raised, answer.value)
    IN
    IF mig_line # 0 THEN failed(mig_line)
    ELSE IF NoInput(num_seq_groups)
    THEN [raised |-> "", line |-> 142, value |-> Some(<<>>),
          runner_calls |-> <<>>]
    ELSE IF answer.raised
    THEN [raised |-> "DeviceFailure", line |-> 144, value |-> None,
          runner_calls |-> <<call>>]
    ELSE [raised |-> "", line |-> 146,
          value |-> Some(ReturnedOutput(answer.value)),
          runner_calls |-> <<call>>]

\* the argument tuples a caller passes: every combination of a request
\* list and empty / non-empty maps, and each single argument left at None
RequestLists == {[i \in 1..n |-> i] : n \in 0..MaxRequests}
SwapMaps == {{}, {<<0, 1>>}}
CopyMaps == {{}, {<<0, <<1>>>>}}

ExecuteArgs ==
    { <<Some(q), Some(si), Some(so), Some(cp)>> :
        q \in RequestLists, si \in SwapMaps, so \in SwapMaps,
        cp \in CopyMaps } \cup
    { <<None, Some({}), Some({}), Some({})>>,
      <<Some(<<>>), None, Some({}), Some({})>>,
      <<Some(<<>>), Some({}), None, Some({})>>,
      <<Some(<<>>), Some({}), Some({}), None>> }

\* the answers the runner can give to this call (one placeholder when the
\* list is None and the runner cannot be reached)
AnswersFor(requests) ==
    IF IsNone(requests) THEN {[raised |-> TRUE, value |-> <<>>]}
    ELSE ExecuteAnswers(Get(requests))

execute_model(requests, swap_in, swap_out, copy, answer) ==
    LET r == ExecuteModel(requests, swap_in, swap_out, copy, tpu_cache, answer)
    IN
    \* the answer only matters when the runner is reached
    /\ r.runner_calls = <<>> => answer = [raised |-> TRUE, value |-> <<>>]
    /\ ret' = [op |-> "execute_model",
               args |-> [requests |-> requests, swap_in |-> swap_in,
                         swap_out |-> swap_out, copy |-> copy],
               raised |-> r.raised, line |-> r.line, value |-> r.value,
               runner_calls |-> r.runner_calls]
    /\ UNCHANGED <<model_config, cache_config, cache_dtype, device, block_size,
                   tpu_cache, model_runner, allocated, probe_results>>

(* ------------------------------- behaviour ----------------------------- *)
Next ==
    \/ determine_num_available_blocks
    \/ get_cache_block_size_bytes
    \/ \E n \in -1..MaxBlocks, c \in 0..MaxCpuBlocks,
          f \in 0..model_config.num_layers, w \in WarmupKinds :
          initialize_cache(n, c, f, w)
    \/ \E x \in ExecuteArgs :
          \E a \in AnswersFor(x[1]) : execute_model(x[1], x[2], x[3], x[4], a)

Spec == Init /\ [][Next]_vars

\* the block-size query applied to every configuration
NextFootprint == get_cache_block_size_bytes

SpecFootprint == InitFootprint /\ [][NextFootprint]_vars

(* ------------------------------ properties ----------------------------- *)
IsExecute == ret.op = "execute_model"
IsAllocate == ret.op = "initialize_cache"
IsProbe == ret.op = "determine_num_available_blocks"
IsFootprint == ret.op = "get_cache_block_size_bytes"

\* the last call was execute_model with a request list and three maps
ExecuteWithMaps ==
    /\ IsExecute
    /\ ~IsNone(ret.args.requests)
    /\ ~IsNone(ret.args.swap_in)
    /\ ~IsNone(ret.args.swap_out)
    /\ ~IsNone(ret.args.copy)

AllMapsEmpty ==
    /\ Get(ret.args.swap_in) = {}
    /\ Get(ret.args.swap_out) = {}
    /\ Get(ret.args.copy) = {}

RejectedAsMigration ==
    /\ ret.raised = "AssertionError"
    /\ ret.line \in {136, 137, 138}

ReturnedEmptyResult == ret.raised = "" /\ ret.value = Some(<<>>)

\* C1: an execute_model call with a non-empty swap-in, swap-out or copy map
\* fails on a migration assert and makes no call into the model runner,
\* whatever the number of requests.
C1_MigrationRejected ==
    (ExecuteWithMaps /\ ~AllMapsEmpty) =>
        (RejectedAsMigration /\ ret.runner_calls = <<>>)

C1_Witness ==
    /\ ExecuteWithMaps
    /\ Len(Get(ret.args.requests)) > 0
    /\ Get(ret.args.swap_in) = {}
    /\ Get(ret.args.swap_out) = {}
    /\ Get(ret.args.copy) # {}
    /\ ret.line = 138

\* C2 (as stated): an execute_model call with an empty request list returns
\* an empty result and makes no runner call, whether the maps are empty or
\* not.
C2_EmptyBatchAlwaysShortCircuits ==
    (ExecuteWithMaps /\ Get(ret.args.requests) = <<>>) =>
        (ReturnedEmptyResult /\ ret.runner_calls = <<>>)

\* C2 (amended): an execute_model call with an empty request list makes no
\* runner call; it returns an empty result when all three maps are empty and
\* fails on a migration assert when one of them is not.
C2_EmptyBatchValidatedFirst ==
    (ExecuteWithMaps /\ Get(ret.args.requests) = <<>>) =>
        /\ ret.runner_calls = <<>>
        /\ IF AllMapsEmpty THEN ReturnedEmptyResult ELSE RejectedAsMigration

C2_Witness ==
    /\ ExecuteWithMaps
    /\ Get(ret.args.requests) = <<>>
    /\ AllMapsEmpty
    /\ ret.line = 142
    /\ ~IsNone(tpu_cache)

\* C3: when the warmup of the latest initialize_cache call handed back a
\* replacement cache, an execute_model call that reaches the runner forwards
\* that replacement (and the original cache when there was no replacement).
C3_ReplacementForwarded ==
    (IsExecute /\ ret.runner_calls # <<>> /\ ~IsNone(model_runner.cache)) =>
        ret.runner_calls[1].args[2] = model_runner.cache

\* C4: an initialize_cache call made before any capacity probe, and an
\* execute_model call made before an initialize_cache call has returned,
\* fails.
C4_LifecycleGate ==
    [][ ( \/ IsAllocate' /\ probe_results = {}
          \/ IsExecute' /\ ~allocated )
        => ret'.raised # "" ]_vars

\* C5: the cache reference is set exactly when an initialize_cache call has
\* returned, and a failed initialize_cache call leaves no cache reference.
C5_CacheIffAllocated ==
    /\ ~IsNone(tpu_cache) <=> allocated
    /\ (IsAllocate /\ ret.raised # "") => IsNone(tpu_cache)

\* the storage precision the configuration asks for
ConfiguredPrecision ==
    IF cache_config.cache_dtype = "auto" THEN model_config.dtype
    ELSE STR_DTYPE_TO_TORCH_DTYPE(cache_config.cache_dtype)

\* num_layers * 2 * block_size * num_kv_heads * head_size * sizeOf(precision)
FootprintProduct ==
    model_config.num_layers * 2 * cache_config.block_size
      * model_config.num_kv_heads * model_config.head_size
      * get_dtype_size(ConfiguredPrecision)

\* 32 layers, 16-token blocks, 8 kv heads of size 128, 2-byte elements
ExampleConfiguration ==
    /\ model_config.num_layers = 32
    /\ cache_config.block_size = 16
    /\ model_config.num_kv_heads = 8
    /\ model_config.head_size = 128
    /\ get_dtype_size(ConfiguredPrecision) = 2

\* C6 (as stated): get_cache_block_size_bytes returns
\* num_layers * 2 * block_size * num_kv_heads * head_size * sizeOf(precision),
\* the precision being the model dtype for "auto" and the named one
\* otherwise; 32 layers, 16-token blocks, 8 heads of size 128 at 2 bytes
\* give 16,777,216.
C6_FootprintWithStatedExample ==
    IsFootprint =>
        /\ Get(ret.value) = FootprintProduct
        /\ ExampleConfiguration => Get(ret.value) = 16777216

\* C6 (amended): get_cache_block_size_bytes returns
\* num_layers * 2 * block_size * num_kv_heads * head_size * sizeOf(precision),
\* the precision being the model dtype for "auto" and the named one
\* otherwise; 32 layers, 16-token blocks, 8 heads of size 128 at 2 bytes
\* give 2,097,152.
C6_Footprint ==
    IsFootprint =>
        /\ Get(ret.value) = FootprintProduct
        /\ ExampleConfiguration => Get(ret.value) = 2097152

C6_Witness ==
    /\ IsFootprint
    /\ ExampleConfiguration
    /\ cache_config.cache_dtype = "half"
    /\ model_config.dtype = "float32"
    /\ Get(ret.value) = 2097152

\* C7: when initialize_cache reaches warmup_model, the cache it passes has
\* num_layers entries, each a pair of tensors of the layout shape for the
\* requested block count, and every element of every tensor is zero.
C7_WarmupSeesZeroedCache ==
    (IsAllocate /\ ret.runner_calls # <<>>) =>
        LET cache == ret.runner_calls[1].args[1]
            shape == get_kv_cache_shape(ret.args.num_gpu_blocks,
                                        cache_config.block_size,
                                        model_config.num_kv_heads,
                                        model_config.head_size)
        IN  /\ ret.args.num_gpu_blocks >= 0
            /\ ret.runner_calls[1].method = "warmup_model"
            /\ Len(cache.layers) = model_config.num_layers
            /\ \A i \in DOMAIN cache.layers :
                  \A j \in 1..2 :
                     LET t == cache.layers[i][j]
                     IN  /\ t.shape = shape
                         /\ DOMAIN t.data = 1..Numel(shape)
                         /\ \A e \in DOMAIN t.data : t.data[e] = 0

C7_Witness ==
    /\ IsAllocate
    /\ ret.runner_calls # <<>>
    /\ ret.args.num_gpu_blocks = MaxBlocks
    /\ model_config.num_layers = MaxLayers
    /\ Len(ret.runner_calls[1].args[1].layers[MaxLayers][2].data) > 0

\* C8: every capacity probe returns 0 host blocks, and all probes of one
\* worker return the same pair, whatever was called before.
C8_ProbeDeterministic ==
    /\ IsProbe => Get(ret.value)[2] = 0
    /\ \A r \in probe_results : r[2] = 0
    /\ Cardinality(probe_results) <= 1

C8_Witness ==
    /\ IsProbe
    /\ allocated
    /\ Get(cache_config.num_gpu_blocks) = MaxBlocks

\* the number of cache entries and the shapes of their tensors
CacheDims ==
    IF IsNone(tpu_cache) THEN <<>>
    ELSE [i \in DOMAIN Get(tpu_cache).layers |->
            <<Get(tpu_cache).layers[i][1].shape,
              Get(tpu_cache).layers[i][2].shape>>]

CapacityKept ==
    /\ cache_config'.num_gpu_blocks = cache_config.num_gpu_blocks
    /\ CacheDims' = CacheDims

ForwardingCall ==
    /\ ExecuteWithMaps
    /\ allocated
    /\ Get(ret.args.requests) # <<>>
    /\ AllMapsEmpty

\* C10: an execute_model call after allocation with a non-empty request list
\* and empty maps calls the runner exactly once with that list and the
\* worker's cache reference, hands back the runner's answer unchanged, and
\* leaves the worker's own attributes unchanged.
C10_ForwardsVerbatim ==
    /\ [](ForwardingCall =>
            /\ Len(ret.runner_calls) = 1
            /\ LET call == ret.runner_calls[1]
               IN  /\ call.method = "execute_model"
                   /\ call.args = <<Get(ret.args.requests), tpu_cache>>
                   /\ IF call.raised THEN ret.raised = "DeviceFailure"
                      ELSE /\ ret.raised = ""
                           /\ ret.value = Some(call.value))
    /\ [][ ForwardingCall' =>
             UNCHANGED <<model_config, cache_config, cache_dtype, device,
                         block_size, tpu_cache, model_runner>> ]_vars

C10_Witness ==
    /\ ForwardingCall
    /\ Len(Get(ret.args.requests)) = MaxRequests
    /\ ret.raised = ""
    /\ Len(Get(ret.value)) = MaxRequests
====
